---- MODULE Spec2Model ----
(***************************************************************************)
(* Model of IV_Surface.py: the Black-Scholes pricing functions, the        *)
(* implied_volatility solver and the module-level surface builder script.  *)
(*                                                                         *)
(* Real numbers are fixed-point integers in thousandths: 0.2 is 200,       *)
(* a spot of 100 dollars is 100000, a quarter of a year is 250.            *)
(***************************************************************************)
EXTENDS Integers, Sequences, FiniteSets

(***************************************************************************)
(* Bounds of the input grids.                                              *)
(***************************************************************************)
MaxSigma == 3
MaxT == 2
MaxK == 2
MaxRows == 2
MaxExp == 2

Scale == 10 ^ 3

(***************************************************************************)
(* Fixed-point arithmetic standing for Python/numpy float arithmetic.      *)
(***************************************************************************)
Mul(a, b) == (a * b) \div Scale
Div(a, b) == (a * Scale) \div b
Neg(a) == 0 - a
Abs(a) == IF a < 0 THEN 0 - a ELSE a

RECURSIVE Newton(_, _)
Newton(n, x) ==
    LET y == (x + n \div x) \div 2
    IN  IF y >= x THEN x ELSE Newton(n, y)

\* np.sqrt: the fixed-point square root (floor), by Newton's iteration
Sqrt(x) == IF x = 0 THEN 0 ELSE Newton(x * Scale, x * Scale)

\* np.exp: Taylor polynomial of degree 6 (arguments here are -r*T, -q*T)
Exp(x) ==
    LET x2 == Mul(x, x)
        x3 == Mul(x2, x)
        x4 == Mul(x3, x)
        x5 == Mul(x4, x)
        x6 == Mul(x5, x)
    IN  Scale + x + x2 \div 2 + x3 \div 6 + x4 \div 24 + x5 \div 120 + x6 \div 720

\* np.log: 2*atanh((x-1)/(x+1)) to the 7th power (arguments here are S/K)
Log(x) ==
    LET y  == Div(x - Scale, x + Scale)
        y2 == Mul(y, y)
        y3 == Mul(y2, y)
        y5 == Mul(y3, y2)
        y7 == Mul(y5, y2)
    IN  2 * (y + y3 \div 3 + y5 \div 5 + y7 \div 7)

\* the standard normal distribution function at 0, 0.25, ..., 4.0
PhiTable ==
    << 500, 599, 691, 773, 841, 894, 933, 960, 977,
       988, 994, 997, 999, 999, 1000, 1000, 1000 >>

\* norm.cdf: the table, linearly interpolated, symmetric about 0
norm_cdf(x) ==
    LET a    == Abs(x)
        i    == a \div 250
        frac == a % 250
        up   == IF i >= 16 THEN Scale
                ELSE PhiTable[i + 1]
                     + ((PhiTable[i + 2] - PhiTable[i + 1]) * frac) \div 250
    IN  IF x >= 0 THEN up ELSE Scale - up

(***************************************************************************)
(* The pricing functions, written as the source writes them.               *)
(***************************************************************************)
bs_call_no_div(S_, K_, T_, r_, sigma_) ==
    LET d1 == Div(Log(Div(S_, K_)) + Mul(r_ + Mul(sigma_, sigma_) \div 2, T_),
                  Mul(sigma_, Sqrt(T_)))
        d2 == d1 - Mul(sigma_, Sqrt(T_))
    IN  Mul(S_, norm_cdf(d1)) - Mul(Mul(K_, Exp(Mul(Neg(r_), T_))), norm_cdf(d2))

\* a variant of bs_call_div that discounts the spot at r instead of q
bs_call_div_spot_at_r(S_, K_, T_, r_, q_, sigma_) ==
    LET d1 == Div(Log(Div(S_, K_)) + Mul(r_ - q_ + Mul(sigma_, sigma_) \div 2, T_),
                  Mul(sigma_, Sqrt(T_)))
        d2 == d1 - Mul(sigma_, Sqrt(T_))
    IN  Mul(Mul(S_, Exp(Mul(Neg(r_), T_))), norm_cdf(d1))
        - Mul(Mul(K_, Exp(Mul(Neg(r_), T_))), norm_cdf(d2))

bs_call_div(S_, K_, T_, r_, q_, sigma_) ==
    LET d1 == Div(Log(Div(S_, K_)) + Mul(r_ - q_ + Mul(sigma_, sigma_) \div 2, T_),
                  Mul(sigma_, Sqrt(T_)))
        d2 == d1 - Mul(sigma_, Sqrt(T_))
    IN  Mul(Mul(S_, Exp(Mul(Neg(q_), T_))), norm_cdf(d1))
        - Mul(Mul(K_, Exp(Mul(Neg(r_), T_))), norm_cdf(d2))

bs_put_no_div(S_, K_, T_, r_, sigma_) ==
    LET d1 == Div(Log(Div(S_, K_)) + Mul(r_ + Mul(sigma_, sigma_) \div 2, T_),
                  Mul(sigma_, Sqrt(T_)))
        d2 == d1 - Mul(sigma_, Sqrt(T_))
    IN  Mul(Mul(K_, Exp(Mul(Neg(r_), T_))), norm_cdf(Neg(d2)))
        - Mul(S_, norm_cdf(Neg(d1)))

bs_put_div(S_, K_, T_, r_, q_, sigma_) ==
    LET d1 == Div(Log(Div(S_, K_)) + Mul(r_ - q_ + Mul(sigma_, sigma_) \div 2, T_),
                  Mul(sigma_, Sqrt(T_)))
        d2 == d1 - Mul(sigma_, Sqrt(T_))
    IN  Mul(Mul(K_, Exp(Mul(Neg(r_), T_))), norm_cdf(Neg(d2)))
        - Mul(Mul(S_, Exp(Mul(Neg(q_), T_))), norm_cdf(Neg(d1)))

(***************************************************************************)
(* Outcomes of a Python call: a float, nan, or a raised exception; calls   *)
(* is the set of functions entered while the call ran.                     *)
(***************************************************************************)
Value(v, c) == [kind |-> "value", value |-> v, exc |-> "", calls |-> c]
Nan(c) == [kind |-> "nan", value |-> 0, exc |-> "", calls |-> c]
Raise(e, c) == [kind |-> "raise", value |-> 0, exc |-> e, calls |-> c]

\* the functions the module defines (def statements at lines 27, 34, 41, 48, 59)
ModuleFunctions ==
    { "bs_call_no_div", "bs_call_div", "bs_put_no_div", "bs_put_div",
      "implied_volatility" }

CallFormulas == { "bs_call_no_div", "bs_call_div" }
PutFormulas == { "bs_put_no_div", "bs_put_div" }

\* the name the objective calls, with six positional arguments
ObjectiveCallee == "bs_call_price"

\* a call name(a[1], ..., a[n]) of a module-level name: an unbound name raises
\* NameError before any argument is used, a wrong argument count TypeError
CallGlobal(name, a) ==
    IF name \notin ModuleFunctions THEN Raise("NameError", {})
    ELSE IF name = "bs_call_div" /\ Len(a) = 6
        THEN Value(bs_call_div(a[1], a[2], a[3], a[4], a[5], a[6]), {name})
    ELSE IF name = "bs_put_div" /\ Len(a) = 6
        THEN Value(bs_put_div(a[1], a[2], a[3], a[4], a[5], a[6]), {name})
    ELSE IF name = "bs_call_no_div" /\ Len(a) = 5
        THEN Value(bs_call_no_div(a[1], a[2], a[3], a[4], a[5]), {name})
    ELSE IF name = "bs_put_no_div" /\ Len(a) = 5
        THEN Value(bs_put_no_div(a[1], a[2], a[3], a[4], a[5]), {name})
    ELSE Raise("TypeError", {})

\* `<pricing call> - price` of the objective, and the objective's own frame
MinusPrice(res, price_) ==
    IF res.kind = "value"
    THEN Value(res.value - price_, res.calls \cup {"objective_function"})
    ELSE [res EXCEPT !.calls = @ \cup {"objective_function"}]

\* objective_function(sigma), closed over the arguments of implied_volatility
objective_function(price_, S_, K_, T_, r_, q_, sigma_) ==
    MinusPrice(CallGlobal(ObjectiveCallee, << S_, K_, T_, r_, sigma_, q_ >>), price_)

\* the bracket of the search, 1e-6 (the smallest positive fixed-point number
\* stands for it) and 5, and brentq's default iteration bound
BracketLo == 1
BracketHi == 5 * Scale
Maxiter == 100

RECURSIVE Search(_, _, _, _, _, _, _, _, _, _)
\* one step of the bracketing iteration, fm the objective at the new point mid
SearchStep(price_, S_, K_, T_, r_, q_, lo, hi, flo, n, mid, fm) ==
    IF fm.kind # "value" THEN fm
    ELSE IF fm.value = 0 THEN Value(mid, fm.calls)
    ELSE IF (fm.value < 0) = (flo < 0)
        THEN Search(price_, S_, K_, T_, r_, q_, mid, hi, fm.value, n + 1)
    ELSE Search(price_, S_, K_, T_, r_, q_, lo, mid, flo, n + 1)

\* the bracketing iteration: lo and hi keep opposite signs of the objective;
\* it gives up with RuntimeError after Maxiter steps
Search(price_, S_, K_, T_, r_, q_, lo, hi, flo, n) ==
    IF hi - lo <= 1 THEN Value(lo, {})
    ELSE IF n >= Maxiter THEN Raise("RuntimeError", {})
    ELSE SearchStep(price_, S_, K_, T_, r_, q_, lo, hi, flo, n, (lo + hi) \div 2,
                    objective_function(price_, S_, K_, T_, r_, q_, (lo + hi) \div 2))

\* brentq once the objective is known at both ends: equal signs raise
\* ValueError, a zero at an end returns that end
BrentqBracket(price_, S_, K_, T_, r_, q_, a, b, fa, fb) ==
    IF fb.kind # "value" THEN fb
    ELSE IF (fa.value > 0 /\ fb.value > 0) \/ (fa.value < 0 /\ fb.value < 0)
        THEN Raise("ValueError", fa.calls \cup fb.calls)
    ELSE IF fa.value = 0 THEN Value(a, fa.calls \cup fb.calls)
    ELSE IF fb.value = 0 THEN Value(b, fa.calls \cup fb.calls)
    ELSE [Search(price_, S_, K_, T_, r_, q_, a, b, fa.value, 0)
             EXCEPT !.calls = fa.calls \cup fb.calls]

\* brentq once the objective is known at a: its exception propagates
BrentqFrom(price_, S_, K_, T_, r_, q_, a, b, fa) ==
    IF fa.kind # "value" THEN fa
    ELSE BrentqBracket(price_, S_, K_, T_, r_, q_, a, b, fa,
                       objective_function(price_, S_, K_, T_, r_, q_, b))

\* the frame of brentq added to the functions entered
Entered(res, name) == [res EXCEPT !.calls = @ \cup {name}]

\* brentq(objective_function, a, b)
brentq(price_, S_, K_, T_, r_, q_, a, b) ==
    Entered(BrentqFrom(price_, S_, K_, T_, r_, q_, a, b,
                       objective_function(price_, S_, K_, T_, r_, q_, a)),
            "brentq")

\* a variant of the guard that lets T = 0 through
InvalidInputStrictT(T_, price_) == T_ < 0 \/ price_ <= 0

\* the guard of implied_volatility
InvalidInput(T_, price_) == T_ <= 0 \/ price_ <= 0

\* the exceptions the try statement of implied_volatility catches
Caught == { "ValueError", "RuntimeError" }

\* the try statement: a caught exception becomes nan, any other propagates
TryExcept(res) ==
    IF res.kind = "raise" /\ res.exc \in Caught THEN Nan(res.calls) ELSE res

implied_volatility(price_, S_, K_, T_, r_, q_) ==
    IF InvalidInput(T_, price_) THEN Nan({})
    ELSE TryExcept(brentq(price_, S_, K_, T_, r_, q_, BracketLo, BracketHi))

(***************************************************************************)
(* State.                                                                  *)
(***************************************************************************)
VARIABLES
    S, K, T, r, q, sigma,   \* market context, quote and a volatility
    option_type,            \* the control panel's selection
    price,                  \* the observed price handed to the solver
    pr_pc, priced,          \* pricing: position and the four fair values
    iv_pc, quote_src, iv_result,  \* solver: position, origin of price, outcome
    pc,                     \* script: position
    min_strike_pct, max_strike_pct,
    exp_dates,              \* script: expirations the loop has still to visit
    fetched,                \* script: the chains fetched, as filtered on bid and ask
    option_call_data, option_put_data,
    call_options_df, put_options_df,
    spot_price,
    reported,               \* script: st.error and st.warning calls made
    exc                     \* script: the uncaught exception, if any

solver_vars == << price, iv_pc, quote_src, iv_result >>
pricing_vars == << pr_pc, priced >>
run_vars == << pc, min_strike_pct, max_strike_pct, exp_dates, fetched,
               option_call_data, option_put_data, call_options_df,
               put_options_df, spot_price, reported, exc >>

vars == << S, K, T, r, q, sigma, option_type, solver_vars, pricing_vars, run_vars >>

inputs == << S, K, T, r, q, sigma, option_type >>

(***************************************************************************)
(* Input grids.                                                            *)
(***************************************************************************)
Spot == 100 * Scale
Strikes == { 80 * Scale + 20 * Scale * i : i \in 0..MaxK }
PositiveTimes == { 250 * i : i \in 1..MaxT }
Times == { 0 - 10, 0 } \cup PositiveTimes
Rates == { 0 - 10, 15, 50 }
Yields == { 0, 13 }
Sigmas == { 200 * i : i \in 1..MaxSigma }
MarketPrices == { 0 - 1500, 0, 10, 1500 }
OptionTypes == { "Call", "Put" }

NoPrices == [call_no_div |-> 0, call_div |-> 0, put_no_div |-> 0, put_div |-> 0]
NoResult == [kind |-> "none", value |-> 0, exc |-> "", calls |-> {}]

InitInputs ==
    /\ S = Spot
    /\ K \in Strikes
    /\ r \in Rates
    /\ q \in Yields
    /\ sigma \in Sigmas
    /\ option_type \in OptionTypes

NoException == [name |-> "", line |-> 0]

InitRunIdle ==
    /\ pc = "idle"
    /\ min_strike_pct = 80 /\ max_strike_pct = 120
    /\ exp_dates = << >> /\ fetched = << >>
    /\ option_call_data = << >> /\ option_put_data = << >>
    /\ call_options_df = << >> /\ put_options_df = << >>
    /\ spot_price = 0
    /\ reported = {}
    /\ exc = NoException

InitPricingIdle == pr_pc = "idle" /\ priced = NoPrices
InitSolverIdle == iv_pc = "idle" /\ quote_src = "none" /\ iv_result = NoResult /\ price = 0

(***************************************************************************)
(* Pricing: the four functions applied to one input.                       *)
(***************************************************************************)
InitPricing ==
    /\ InitInputs
    /\ T \in PositiveTimes
    /\ pr_pc = "start" /\ priced = NoPrices
    /\ InitSolverIdle
    /\ InitRunIdle

EvaluatePricing ==
    /\ pr_pc = "start"
    /\ priced' = [call_no_div |-> bs_call_no_div(S, K, T, r, sigma),
                  call_div    |-> bs_call_div(S, K, T, r, q, sigma),
                  put_no_div  |-> bs_put_no_div(S, K, T, r, sigma),
                  put_div     |-> bs_put_div(S, K, T, r, q, sigma)]
    /\ pr_pc' = "done"
    /\ UNCHANGED << inputs, solver_vars, run_vars >>

NextPricing == EvaluatePricing
PricingSpec == InitPricing /\ [][NextPricing]_vars

(***************************************************************************)
(* Solver: one call of implied_volatility on an observed or a model price. *)
(***************************************************************************)
Init ==
    /\ InitInputs
    /\ T \in Times
    /\ InitPricingIdle
    /\ iv_pc = "start" /\ quote_src = "none" /\ iv_result = NoResult /\ price = 0
    /\ InitRunIdle

\* the caller hands over a quoted mid price
ObserveQuote ==
    /\ iv_pc = "start"
    /\ \E p \in MarketPrices : price' = p
    /\ quote_src' = "market"
    /\ iv_pc' = "quoted"
    /\ UNCHANGED << inputs, pricing_vars, run_vars, iv_result >>

\* the caller prices a call at volatility sigma (first leg of a round trip)
PriceQuote ==
    /\ iv_pc = "start"
    /\ T > 0
    /\ price' = bs_call_div(S, K, T, r, q, sigma)
    /\ quote_src' = "model"
    /\ iv_pc' = "quoted"
    /\ UNCHANGED << inputs, pricing_vars, run_vars, iv_result >>

CallImpliedVolatility ==
    /\ iv_pc = "quoted"
    /\ iv_result' = implied_volatility(price, S, K, T, r, q)
    /\ iv_pc' = "done"
    /\ UNCHANGED << inputs, pricing_vars, run_vars, price, quote_src >>

Next == ObserveQuote \/ PriceQuote \/ CallImpliedVolatility
Spec == Init /\ [][Next]_vars
(***************************************************************************)
(* The surface builder: the module-level script, one run.                  *)
(***************************************************************************)
SeqsUpTo(X, n) == UNION { [1..k -> X] : k \in 0..n }

\* raw quote rows of a chain: in or out of the strike range, quoted or not
RawRows ==
    { [strike |-> k, bid |-> b, ask |-> 2 * Scale] :
        k \in { 90 * Scale, 130 * Scale }, b \in { 0, Scale } }
Chains == SeqsUpTo(RawRows, MaxRows)

\* ticker.options, as days from today: one within a week, the others beyond
ExpirationDays == { 5 } \cup { 30 * i : i \in 1..MaxExp }

RECURSIVE Ascending(_)
Ascending(X) ==
    IF X = {} THEN << >>
    ELSE LET m == CHOOSE x \in X : \A y \in X : x <= y
         IN  << m >> \o Ascending(X \ {m})

Error(line) == [level |-> "error", line |-> line]
Warning(line) == [level |-> "warning", line |-> line]

\* calls[(calls['bid'] > 0) & (calls['ask'] > 0)]
Quoted(row) == row.bid > 0 /\ row.ask > 0
BidAskFilter(rows) == SelectSeq(rows, Quoted)

\* the dict appended for one row
QuoteRecord(exp_date, row) ==
    [expirationDate |-> exp_date, strike |-> row.strike, bid |-> row.bid,
     ask |-> row.ask, mid |-> (row.bid + row.ask) \div 2]

QuoteRecords(exp_date, rows) ==
    [i \in 1..Len(rows) |-> QuoteRecord(exp_date, rows[i])]

RECURSIVE Repeat(_, _)
Repeat(xs, n) == IF n = 0 THEN << >> ELSE xs \o Repeat(xs, n - 1)

\* what the loop over calls.iterrows() appends to option_call_data
CallAppends(exp_date, calls, puts) == QuoteRecords(exp_date, calls)

\* what it appends to option_put_data: the loop over puts.iterrows() is in the
\* body of the loop over calls.iterrows(), so it runs once per call row
PutAppends(exp_date, calls, puts) == Repeat(QuoteRecords(exp_date, puts), Len(calls))

\* the columns daysToExpiration and timeToExpiration; today is day 0
WithTime(df) ==
    [i \in 1..Len(df) |->
        [expirationDate |-> df[i].expirationDate, strike |-> df[i].strike,
         bid |-> df[i].bid, ask |-> df[i].ask, mid |-> df[i].mid,
         daysToExpiration |-> df[i].expirationDate,
         timeToExpiration |-> (df[i].expirationDate * Scale) \div 365]]

\* the strike range, percentages of the spot price
InStrikeRange(row) ==
    /\ row.strike * 100 >= spot_price * min_strike_pct
    /\ row.strike * 100 <= spot_price * max_strike_pct
StrikeRangeFilter(df) == SelectSeq(df, InStrikeRange)

\* the module-level names bound when line 229 runs
ScriptNames ==
    { "risk_free_rate", "dividend_yield", "option_type", "y_axis_option",
      "ticker_symbol", "min_strike_pct", "max_strike_pct", "ticker", "today",
      "expirations", "exp_dates", "option_call_data", "option_put_data",
      "call_options_df", "put_options_df", "spot_history", "spot_price" }
      \cup ModuleFunctions

\* the table line 229 reads and writes
IVTable == "options_df"

Terminal == { "stopped", "end", "crashed" }

InitRun ==
    /\ S = Spot /\ K = Spot /\ T = 250 /\ r = 15 /\ q = 13 /\ sigma = 200
    /\ option_type \in OptionTypes
    /\ InitPricingIdle
    /\ InitSolverIdle
    /\ pc = "check_pct"
    /\ min_strike_pct \in { 80, 120 } /\ max_strike_pct \in { 120, 140 }
    /\ exp_dates = << >> /\ fetched = << >>
    /\ option_call_data = << >> /\ option_put_data = << >>
    /\ call_options_df = << >> /\ put_options_df = << >>
    /\ spot_price = 0
    /\ reported = {}
    /\ exc = NoException

run_data == << fetched, option_call_data, option_put_data, call_options_df,
               put_options_df, spot_price >>
run_params == << min_strike_pct, max_strike_pct >>
core_vars == << S, K, T, r, q, sigma, option_type, solver_vars, pricing_vars >>

\* lines 130-132
CheckStrikePct ==
    /\ pc = "check_pct"
    /\ IF min_strike_pct >= max_strike_pct
       THEN pc' = "stopped" /\ reported' = reported \cup { Error(131) }
       ELSE pc' = "fetch_expirations" /\ UNCHANGED reported
    /\ UNCHANGED << core_vars, run_params, run_data, exp_dates, exc >>

\* lines 134-150
FetchExpirations ==
    /\ pc = "fetch_expirations"
    /\ \/ /\ pc' = "stopped"
          /\ reported' = reported \cup { Error(141) }
          /\ UNCHANGED exp_dates
       \/ \E expirations \in SUBSET ExpirationDays :
            LET dates == Ascending({ e \in expirations : e > 7 })
            IN  /\ exp_dates' = dates
                /\ IF dates = << >>
                   THEN pc' = "end" /\ reported' = reported \cup { Error(147) }
                   ELSE pc' = "loop" /\ UNCHANGED reported
    /\ UNCHANGED << core_vars, run_params, run_data, exc >>

\* lines 152-190, one iteration
LoopExpiration ==
    /\ pc = "loop"
    /\ exp_dates # << >>
    /\ LET exp_date == Head(exp_dates)
       IN  \/ /\ reported' = reported \cup { Warning(158) }
              /\ UNCHANGED << fetched, option_call_data, option_put_data >>
           \/ \E raw_calls \in Chains, raw_puts \in Chains :
                LET calls == BidAskFilter(raw_calls)
                    puts  == BidAskFilter(raw_puts)
                IN  /\ fetched' = Append(fetched, [expirationDate |-> exp_date,
                                                   calls |-> calls, puts |-> puts])
                    /\ option_call_data' =
                         option_call_data \o CallAppends(exp_date, calls, puts)
                    /\ option_put_data' =
                         option_put_data \o PutAppends(exp_date, calls, puts)
                    /\ UNCHANGED reported
    /\ exp_dates' = Tail(exp_dates)
    /\ UNCHANGED << core_vars, run_params, pc, call_options_df, put_options_df,
                    spot_price, exc >>

\* lines 192-196
CheckCallData ==
    /\ pc = "loop"
    /\ exp_dates = << >>
    /\ IF option_call_data = << >>
       THEN /\ pc' = "end"
            /\ reported' = reported \cup { Error(193) }
            /\ UNCHANGED << call_options_df, put_options_df >>
       ELSE /\ pc' = "fetch_spot"
            /\ call_options_df' = option_call_data
            /\ put_options_df' = option_put_data
            /\ UNCHANGED reported
    /\ UNCHANGED << core_vars, run_params, exp_dates, fetched, option_call_data,
                    option_put_data, spot_price, exc >>

\* lines 198-207
FetchSpot ==
    /\ pc = "fetch_spot"
    /\ \/ pc' = "stopped" /\ reported' = reported \cup { Error(201) } /\ UNCHANGED spot_price
       \/ pc' = "stopped" /\ reported' = reported \cup { Error(206) } /\ UNCHANGED spot_price
       \/ pc' = "time_to_expiration" /\ spot_price' = Spot /\ UNCHANGED reported
    /\ UNCHANGED << core_vars, run_params, exp_dates, fetched, option_call_data,
                    option_put_data, call_options_df, put_options_df, exc >>

\* lines 209-213: a DataFrame built from an empty list has no columns
TimeToExpiration ==
    /\ pc = "time_to_expiration"
    /\ call_options_df' = WithTime(call_options_df)
    /\ IF put_options_df = << >>
       THEN /\ pc' = "crashed"
            /\ exc' = [name |-> "KeyError", line |-> 212]
            /\ UNCHANGED put_options_df
       ELSE /\ pc' = "strike_filter"
            /\ put_options_df' = WithTime(put_options_df)
            /\ UNCHANGED exc
    /\ UNCHANGED << core_vars, run_params, exp_dates, fetched, option_call_data,
                    option_put_data, spot_price, reported >>

\* lines 215-226
StrikeFilter ==
    /\ pc = "strike_filter"
    /\ call_options_df' = StrikeRangeFilter(call_options_df)
    /\ put_options_df' = StrikeRangeFilter(put_options_df)
    /\ pc' = "compute_iv"
    /\ UNCHANGED << core_vars, run_params, exp_dates, fetched, option_call_data,
                    option_put_data, spot_price, reported, exc >>

\* lines 228-238: the name options_df is read first, and nothing binds it
ComputeIV ==
    /\ pc = "compute_iv"
    /\ IVTable \notin ScriptNames
    /\ pc' = "crashed"
    /\ exc' = [name |-> "NameError", line |-> 229]
    /\ UNCHANGED << core_vars, run_params, run_data, exp_dates, reported >>

NextRun ==
    \/ CheckStrikePct \/ FetchExpirations \/ LoopExpiration \/ CheckCallData
    \/ FetchSpot \/ TimeToExpiration \/ StrikeFilter \/ ComputeIV
RunSpec == InitRun /\ [][NextRun]_vars
(***************************************************************************)
(* Properties of the solver, checked under Spec.                           *)
(***************************************************************************)
Returned == iv_pc = "done"
RootFinderAndPricing == { "brentq" } \cup CallFormulas \cup PutFormulas

\* What a finished call holds in this module: nan from the guard, or the
\* NameError of the objective's unbound callee, raised at brentq's first
\* evaluation; never a volatility.
SolverOutcomes ==
    Returned =>
        \/ iv_result = Nan({})
        \/ iv_result = Raise("NameError", {"brentq", "objective_function"})

\* C1: a call with T > 0 and price > 0 ends by returning a volatility or the
\* 'no solution' marker, and never raises.
C1_NeverRaises ==
    (Returned /\ T > 0 /\ price > 0) => iv_result.kind \in { "value", "nan" }

\* C2: a call with T <= 0 or price <= 0 returns 'no solution', and neither
\* the root-finder nor a pricing function is invoked during it.
C2_InvalidInputShortCircuits ==
    (Returned /\ (T <= 0 \/ price <= 0)) =>
        /\ iv_result.kind = "nan"
        /\ iv_result.calls \cap RootFinderAndPricing = {}

C2_Witness ==
    /\ Returned /\ T = 0 /\ price > 0
    /\ iv_result.kind = "nan"

\* C3: the objective is built from the put formula when 'Put' is selected
\* and from the call formula when 'Call' is selected.
C3_FormulaMatchesOptionType ==
    (Returned /\ "objective_function" \in iv_result.calls) =>
        /\ option_type = "Put" =>
             /\ iv_result.calls \cap PutFormulas # {}
             /\ iv_result.calls \cap CallFormulas = {}
        /\ option_type = "Call" =>
             /\ iv_result.calls \cap CallFormulas # {}
             /\ iv_result.calls \cap PutFormulas = {}

\* C5: round trip: the price of a call at volatility sigma (a price the
\* fixed-point resolution keeps above zero), handed to implied_volatility,
\* gives back sigma within the solver's tolerance (one unit of the
\* resolution), and not 'no solution'.
C5_RoundTrip ==
    (Returned /\ quote_src = "model" /\ price > 0) =>
        /\ iv_result.kind = "value"
        /\ Abs(iv_result.value - sigma) <= 1

(***************************************************************************)
(* Properties of the pricing functions, checked under PricingSpec.         *)
(***************************************************************************)
\* C8: at q = 0 the dividend-aware call and put prices equal the
\* no-dividend ones.
C8_NoDividendIsSpecialCase ==
    (pr_pc = "done" /\ q = 0) =>
        /\ priced.call_div = priced.call_no_div
        /\ priced.put_div = priced.put_no_div

C8_Witness ==
    /\ pr_pc = "done" /\ q = 0 /\ r # 0
    /\ priced.call_div > 0 /\ priced.put_div > 0
    /\ priced.call_div # priced.put_div

(***************************************************************************)
(* Properties of the surface builder, checked under RunSpec.               *)
(***************************************************************************)
SelectedData == IF option_type = "Call" THEN option_call_data ELSE option_put_data
SelectedTable == IF option_type = "Call" THEN call_options_df ELSE put_options_df

\* the quotes of the selected type left by the filters the run has applied
UsableQuotes ==
    IF pc = "crashed" /\ exc.line = 229 THEN SelectedTable ELSE SelectedData

\* C6: a run that is left with no usable quote after filtering ends with an
\* error reported to the user.
C6_NoUsableQuoteIsReported ==
    (pc \in Terminal /\ UsableQuotes = << >>) =>
        \E m \in reported : m.level = "error"

\* C7: the implied-volatility step (apply, dropna, scaling) does not abort
\* the run.
C7_SolveStepDoesNotAbort ==
    ~ (pc = "crashed" /\ exc.line \in 228..242)

LoopDone == exp_dates = << >> /\ pc \notin { "check_pct", "fetch_expirations" }
RecordsOf(data, exp_date) ==
    Cardinality({ i \in 1..Len(data) : data[i].expirationDate = exp_date })

\* C10: after the collection loop, each fetched expiration has exactly one
\* record per quoted put row in option_put_data and one per quoted call row
\* in option_call_data.
C10_OneRecordPerQuote ==
    LoopDone =>
        \A i \in 1..Len(fetched) :
            /\ RecordsOf(option_put_data, fetched[i].expirationDate)
                 = Len(fetched[i].puts)
            /\ RecordsOf(option_call_data, fetched[i].expirationDate)
                 = Len(fetched[i].calls)
====
